---------------------------- MODULE Spec2Model ----------------------------
(* Model of the notebook "03 Claim Classification.ipynb": the text        *)
(* preprocessing written in the notebook (remove_special_characters,      *)
(* convert_to_indices), the padding calls, and the order of the cells.    *)
(* A Python str is a sequence of one-character strings; Python indices    *)
(* are 0-based and are kept 0-based in every value the program stores.    *)
EXTENDS Integers, Sequences, FiniteSets, TLC

(***************************************************************************)
(* Bounds of the explored inputs                                           *)
(***************************************************************************)
\* longest line of claims_text.txt that is enumerated exhaustively
MaxClaimLen == 3
\* how many words beyond maxSeqLength the longest enumerated claim has
Over == 1

(***************************************************************************)
(* Program constants                                                       *)
(***************************************************************************)
maxSeqLength == 125
unk_word_index == 399999

(***************************************************************************)
(* Characters and strings                                                  *)
(***************************************************************************)
UpperCase ==
  <<"A", "B", "C", "D", "E", "F", "G", "H", "I", "J", "K", "L", "M",
    "N", "O", "P", "Q", "R", "S", "T", "U", "V", "W", "X", "Y", "Z">>

LowerCase ==
  <<"a", "b", "c", "d", "e", "f", "g", "h", "i", "j", "k", "l", "m",
    "n", "o", "p", "q", "r", "s", "t", "u", "v", "w", "x", "y", "z">>

\* string.punctuation (without the grave accent, which a TLA+ string cannot
\* hold; no modelled input contains it)
Punctuation ==
  {"!", "\"", "#", "$", "%", "&", "'", "(", ")", "*", "+", ",", "-", ".",
   "/", ":", ";", "<", "=", ">", "?", "@", "[", "\\", "]", "^", "_",
   "{", "|", "}", "~"}

\* the characters str.split() treats as separators
Whitespace == {" ", "\t", "\n", "\r", "\f"}

LowerChar(c) ==
  IF \E k \in 1..Len(UpperCase) : UpperCase[k] = c
  THEN LowerCase[CHOOSE k \in 1..Len(UpperCase) : UpperCase[k] = c]
  ELSE c

\* str.lower()
Lower(s) == [k \in 1..Len(s) |-> LowerChar(s[k])]

\* pattern.sub('', token) with pattern the character class of string.punctuation
remove_special_characters(token) ==
  SelectSeq(token, LAMBDA c : c \notin Punctuation)

\* the runs of non-whitespace of s, given the positions where a run starts
\* and, for each position, the number of runs that start at or before it
Runs(s, starts, runOf) ==
  [n \in 1..Cardinality(starts) |->
     SubSeq(s, CHOOSE k \in starts : runOf[k] = n,
               CHOOSE k \in 1..Len(s) :
                 /\ runOf[k] = n
                 /\ s[k] \notin Whitespace
                 /\ (k = Len(s) \/ s[k + 1] \in Whitespace))]

RunStarts(s) ==
  {k \in 1..Len(s) :
     s[k] \notin Whitespace /\ (k = 1 \/ s[k - 1] \in Whitespace)}

RunCount(s, starts) ==
  [k \in 1..Len(s) |-> Cardinality({j \in starts : j <= k})]

\* str.split() without arguments: the maximal runs of non-whitespace, in
\* the order in which they start
Split(s) == Runs(s, RunStarts(s), RunCount(s, RunStarts(s)))

\* the n-th smallest element of a set of integers
Nth(S, n) == CHOOSE k \in S : Cardinality({j \in S : j < k}) = n - 1

(***************************************************************************)
(* list.index and the two try/except blocks of convert_to_indices          *)
(***************************************************************************)
\* outcome of a list.index call that raises ValueError
ValueError == -1

\* variant: the position of the last element equal to w
IndexLast(list, w) ==
  IF \E k \in 1..Len(list) : list[k] = w
  THEN (CHOOSE k \in 1..Len(list) :
          /\ list[k] = w
          /\ \A m \in (k + 1)..Len(list) : list[m] # w) - 1
  ELSE ValueError

\* list.index(w): the 0-based position of the first element equal to w
Index(list, w) ==
  IF \E k \in 1..Len(list) : list[k] = w
  THEN (CHOOSE k \in 1..Len(list) :
          /\ list[k] = w
          /\ \A m \in 1..(k - 1) : list[m] # w) - 1
  ELSE ValueError

\* variant: no handler, the ValueError leaves the function
HandleValueErrorMissing(unk) == [append |-> <<>>, exc |-> "ValueError"]

\* except ValueError: sequence.append(unk_word_index)
HandleValueError(unk) == [append |-> <<unk>>, exc |-> "none"]

\* try: word_index = dictionary.index(w); sequence.append(word_index)
TryIndex(dict, w, unk) ==
  IF Index(dict, w) = ValueError
  THEN HandleValueError(unk)
  ELSE [append |-> <<Index(dict, w)>>, exc |-> "none"]

RECURSIVE ResolveFrom(_, _, _, _, _)
ResolveFrom(resolved_words, k, dict, unk, acc) ==
  IF k > Len(resolved_words) \/ acc.exc # "none"
  THEN acc
  ELSE LET r == TryIndex(dict, resolved_words[k], unk)
       IN  ResolveFrom(resolved_words, k + 1, dict, unk,
                       [append |-> acc.append \o r.append, exc |-> r.exc])

\* if word in c_map: the loop over c_map[word].split()
ResolveContraction(word, dict, c_map, unk) ==
  ResolveFrom(Split(c_map[word]), 1, dict, unk,
              [append |-> <<>>, exc |-> "none"])

\* else: clean_word = remove_special_characters(word); index it if non-empty
IndexCleanWord(word, dict, unk) ==
  LET clean_word == remove_special_characters(word)
  IN  IF Len(clean_word) > 0
      THEN TryIndex(dict, clean_word, unk)
      ELSE [append |-> <<>>, exc |-> "none"]

\* the body of "for word in tokens", after word = word.lower()
ProcessWord(word, dict, c_map, unk) ==
  IF word \in DOMAIN c_map
  THEN ResolveContraction(word, dict, c_map, unk)
  ELSE IndexCleanWord(word, dict, unk)

(***************************************************************************)
(* keras.preprocessing.sequence.pad_sequences, as the notebook calls it    *)
(***************************************************************************)
Zeros(n) == [k \in 1..n |-> 0]

\* one row of pad_sequences(..., value=0): truncate to maxlen, then pad
PadRow(s, maxlen, padding, truncating) ==
  LET trunc == IF Len(s) <= maxlen THEN s
               ELSE IF truncating = "pre"
                    THEN SubSeq(s, Len(s) - maxlen + 1, Len(s))
                    ELSE SubSeq(s, 1, maxlen)
      fill  == Zeros(maxlen - Len(trunc))
  IN  IF padding = "post" THEN trunc \o fill ELSE fill \o trunc

\* pad_sequences(sequences, maxlen, padding, truncating): one row a sequence
PadSequences(seqs, maxlen, padding, truncating) ==
  [r \in 1..Len(seqs) |-> PadRow(seqs[r], maxlen, padding, truncating)]

\* the length of the longest of the sequences
Longest(seqs) ==
  CHOOSE n \in {0} \cup {Len(seqs[r]) : r \in 1..Len(seqs)} :
    \A r \in 1..Len(seqs) : Len(seqs[r]) <= n

\* variant: maxlen left out, so that rows get the length of the longest one
PadCallNoMaxlen(seqs) == PadSequences(seqs, Longest(seqs), "pre", "post")

\* variant: the values of padding and truncating exchanged
PadCallExchanged(seqs) == PadSequences(seqs, maxSeqLength, "post", "pre")

\* pad_sequences(x, maxlen=maxSeqLength, padding='pre', truncating='post')
PadCall(seqs) == PadSequences(seqs, maxSeqLength, "pre", "post")

(***************************************************************************)
(* The downloaded artifacts the notebook reads                             *)
(***************************************************************************)
\* wordsList.npy after tolist() and decode('UTF-8')
WordsListA ==
  <<<<"t", "h", "e">>,
    <<"a">>,
    <<"a", "a">>,
    <<"a">>,
    <<"m", "y">>,
    <<"h", "o", "u", "s", "e">>,
    <<"c", "a", "r">>,
    <<"i">>>>

WordsListB ==
  <<<<"a", "a">>,
    <<"A">>,
    <<"f", "l", "o", "o", "d">>,
    <<"i", "n">>,
    <<"i", "n", "t", "o">>>>

\* contractions.xlsx: the rows (original, expanded)
SheetA ==
  <<[original |-> <<"'", "a">>, expanded |-> <<"a", "a", " ", "a">>]>>

SheetB ==
  <<[original |-> <<"a", "'">>, expanded |-> <<"A", " ", "a">>],
    [original |-> <<"'", "a">>, expanded |-> <<"a">>],
    [original |-> <<"'", "a">>, expanded |-> <<"a", " ", "a", "a">>]>>

\* the characters of the exhaustively enumerated claims files
InputAlphabet == {"a", "A", "'", ",", " ", "\n"}

Strings(n) == UNION {[1..k -> InputAlphabet] : k \in 0..n}

\* a line of n words: n - 1 times "a", then "aa"
LongLine(n) ==
  [k \in 1..(2 * n + 1) |->
     IF k = 2 * n + 1 THEN "\n"
     ELSE IF k = 2 * n \/ k % 2 = 1 THEN "a" ELSE " "]

RECURSIVE LongLines(_, _)
LongLines(n, last) ==
  IF n > last THEN <<>> ELSE LongLine(n) \o LongLines(n + 1, last)

\* a file with an empty line, a short line with a contraction in the middle,
\* and lines of maxSeqLength - 1 .. maxSeqLength + Over words
LongFile ==
  <<"\n", "a", "a", " ", "'", "a", " ", "a", "\n">>
    \o LongLines(maxSeqLength - 1, maxSeqLength + Over)

\* test_claim of the "Test classifying claims" cell
test_claim ==
  <<<<"I", " ", "c", "r", "a", "s", "h", "e", "d", " ", "m", "y", " ",
      "c", "a", "r", " ", "i", "n", "t", "o", " ", "a", " ", "p", "o",
      "l", "e", ".">>,
    <<"T", "h", "e", " ", "f", "l", "o", "o", "d", " ", "r", "u", "i",
      "n", "e", "d", " ", "m", "y", " ", "h", "o", "u", "s", "e", ".">>,
    <<"I", " ", "l", "o", "s", "t", " ", "c", "o", "n", "t", "r", "o",
      "l", " ", "o", "f", " ", "m", "y", " ", "c", "a", "r", " ", "a",
      "n", "d", " ", "f", "e", "l", "l", " ", "i", "n", " ", "t", "h",
      "e", " ", "r", "i", "v", "e", "r", ".">>>>

\* a file of a line "A, 'A 'a, a'a aaa" and a last line (no final newline)
\* that is the second test claim
TestLikeFile ==
  <<"A", ",", " ", "'", "A", " ", "'", "a", ",", " ", "a", "'", "a", " ",
    "a", "a", "a", "\n">> \o test_claim[2]

ClaimsFiles == Strings(MaxClaimLen) \cup {LongFile, TestLikeFile}

\* [claim for claim in open(path)]: the lines, each with its line end
ReadLines(text) ==
  LET ends == {k \in 1..Len(text) : text[k] = "\n" \/ k = Len(text)}
  IN  [n \in 1..Cardinality(ends) |->
         SubSeq(text, IF n = 1 THEN 1 ELSE Nth(ends, n - 1) + 1, Nth(ends, n))]

\* dict(zip(original, expanded)): a later row replaces an earlier one
DictZip(rows) ==
  [key \in {rows[n].original : n \in 1..Len(rows)} |->
     rows[CHOOSE n \in 1..Len(rows) :
            /\ rows[n].original = key
            /\ \A m \in (n + 1)..Len(rows) : rows[m].original # key].expanded]

(***************************************************************************)
(* State                                                                   *)
(***************************************************************************)
VARIABLES
  pc,                    \* the cell that runs next
  status,                \* "ok", or the exception that stopped the run
  defined,               \* the names bound in the notebook's namespace
  wordsList_npy,         \* downloaded artifact: the word list
  contractions_xlsx,     \* downloaded artifact: the contractions sheet
  claims_text_txt,       \* downloaded artifact: the claims, one a line
  dictionary,
  contractions,
  claims_corpus,
  claims_corpus_indices,
  X,
  test_claim_indices,
  test_data,
  cti,                   \* position inside a running convert_to_indices
  corpus,                \* its parameter
  i,                     \* claims of corpus completed by "for i"
  tokens,
  t,                     \* tokens completed by "for word in tokens"
  word,
  sequence,
  sequences,
  appended,              \* what the last completed token added to sequence
  model,
  final_model_hdf5,
  pred

artifacts == <<wordsList_npy, contractions_xlsx, claims_text_txt>>
loaded == <<dictionary, contractions, claims_corpus>>
results == <<claims_corpus_indices, X, test_claim_indices, test_data>>
frame == <<cti, corpus, i, tokens, t, word, sequence, sequences, appended>>
keras == <<model, final_model_hdf5, pred>>
vars == <<pc, status, defined, artifacts, loaded, results, frame, keras>>

\* variant: the cell that saves the model placed before the cell that fits it
CellsSaveBeforeFit ==
  <<"load_embeddings", "load_contractions", "load_corpus", "load_labels",
    "categorical_labels", "convert_claims", "pad_claims", "build_model",
    "split", "compile", "save", "fit", "prepare_test", "predict", "load",
    "predict_loaded", "done">>

\* the code cells of the notebook that bind or use the modelled names, in
\* the order in which the notebook lists them
Cells ==
  <<"load_embeddings", "load_contractions", "load_corpus", "load_labels",
    "categorical_labels", "convert_claims", "pad_claims", "build_model",
    "split", "compile", "fit", "prepare_test", "predict", "save", "load",
    "predict_loaded", "done">>

CellPos(c) == CHOOSE k \in 1..Len(Cells) : Cells[k] = c

\* the cell that runs after cell c
After(c) == Cells[CellPos(c) + 1]

Init ==
  /\ pc = Cells[1]
  /\ status = "ok"
  /\ defined = {}
  /\ wordsList_npy \in {WordsListA, WordsListB}
  /\ contractions_xlsx \in {SheetA, SheetB}
  /\ claims_text_txt \in ClaimsFiles
  /\ dictionary = <<>>
  /\ contractions = <<>>
  /\ claims_corpus = <<>>
  /\ claims_corpus_indices = <<>>
  /\ X = <<>>
  /\ test_claim_indices = <<>>
  /\ test_data = <<>>
  /\ cti = "idle"
  /\ corpus = <<>>
  /\ i = 0
  /\ tokens = <<>>
  /\ t = 0
  /\ word = <<>>
  /\ sequence = <<>>
  /\ sequences = <<>>
  /\ appended = <<>>
  /\ model = [built |-> FALSE, compiled |-> FALSE, trained |-> FALSE]
  /\ final_model_hdf5 = [exists |-> FALSE, trained |-> FALSE]
  /\ pred = [by |-> "", data |-> <<>>]

\* a cell is running: the run is alive and no call is in progress
AtCell(c) == pc = c /\ status = "ok" /\ cti = "idle"

\* an uncaught exception ends the run
Raise(exc) == status' = exc /\ pc' = "aborted"

(***************************************************************************)
(* Cells that load the artifacts                                           *)
(***************************************************************************)
LoadEmbeddings ==
  /\ AtCell("load_embeddings")
  /\ dictionary' = wordsList_npy
  /\ defined' = defined \cup {"dictionary", "word_vectors"}
  /\ pc' = After(pc)
  /\ UNCHANGED <<status, artifacts, contractions, claims_corpus, results,
                 frame, keras>>

LoadContractions ==
  /\ AtCell("load_contractions")
  /\ contractions' = DictZip(contractions_xlsx)
  /\ defined' = defined \cup {"contractions"}
  /\ pc' = After(pc)
  /\ UNCHANGED <<status, artifacts, dictionary, claims_corpus, results,
                 frame, keras>>

LoadCorpus ==
  /\ AtCell("load_corpus")
  /\ claims_corpus' = ReadLines(claims_text_txt)
  /\ defined' = defined \cup {"claims_corpus"}
  /\ pc' = After(pc)
  /\ UNCHANGED <<status, artifacts, dictionary, contractions, results,
                 frame, keras>>

\* labels = [int(...) for label in open(...)]
LoadLabels ==
  /\ AtCell("load_labels")
  /\ defined' = defined \cup {"labels"}
  /\ pc' = After(pc)
  /\ UNCHANGED <<status, artifacts, loaded, results, frame, keras>>

\* labels = to_categorical(labels, 2)
CategoricalLabels ==
  /\ AtCell("categorical_labels")
  /\ IF "labels" \in defined
     THEN pc' = After(pc) /\ UNCHANGED status
     ELSE Raise("NameError")
  /\ UNCHANGED <<defined, artifacts, loaded, results, frame, keras>>

(***************************************************************************)
(* convert_to_indices(corpus, dictionary, c_map, unk_word_index = 399999)  *)
(* The arguments dictionary and c_map are the notebook's own dictionary    *)
(* and contractions objects at both call sites.                            *)
(***************************************************************************)
\* sequences = []
Enter(arg) ==
  /\ corpus' = arg
  /\ sequences' = <<>>
  /\ i' = 0
  /\ cti' = "for_i"
  /\ UNCHANGED <<tokens, t, word, sequence, appended>>

\* claims_corpus_indices = convert_to_indices(claims_corpus, dictionary,
\*                                            contractions): the call
CallConvertClaims ==
  /\ AtCell("convert_claims")
  /\ IF {"claims_corpus", "dictionary", "contractions"} \subseteq defined
     THEN Enter(claims_corpus) /\ UNCHANGED <<pc, status>>
     ELSE Raise("NameError") /\ UNCHANGED frame
  /\ UNCHANGED <<defined, artifacts, loaded, results, keras>>

\* for i in range(len(corpus)): tokens = corpus[i].split(); sequence = []
ForClaim ==
  /\ cti = "for_i"
  /\ IF i < Len(corpus)
     THEN /\ tokens' = Split(corpus[i + 1])
          /\ sequence' = <<>>
          /\ t' = 0
          /\ appended' = <<>>
          /\ cti' = "for_word"
     ELSE /\ cti' = "return"
          /\ UNCHANGED <<tokens, sequence, t, appended>>
  /\ UNCHANGED <<pc, status, defined, artifacts, loaded, results, corpus, i,
                 word, sequences, keras>>

\* variant: the indices are inserted at the front of the sequence
SequenceInsertFront(seq, indices) == indices \o seq

\* sequence.append(index), for each index the word yields
SequenceAppend(seq, indices) == seq \o indices

\* variant: a word that is not in the dictionary is added to it
ForWordLearning ==
  /\ cti = "for_word"
  /\ t < Len(tokens)
  /\ LET w == Lower(tokens[t + 1])
         r == ProcessWord(w, dictionary, contractions, unk_word_index)
         clean_word == remove_special_characters(w)
     IN  /\ word' = w
         /\ appended' = r.append
         /\ sequence' = SequenceAppend(sequence, r.append)
         /\ dictionary' =
              IF /\ w \notin DOMAIN contractions
                 /\ Len(clean_word) > 0
                 /\ Index(dictionary, clean_word) = ValueError
              THEN Append(dictionary, clean_word)
              ELSE dictionary
         /\ IF r.exc = "none"
            THEN t' = t + 1 /\ UNCHANGED <<pc, status, cti>>
            ELSE Raise(r.exc) /\ cti' = "idle" /\ UNCHANGED t
  /\ UNCHANGED <<defined, artifacts, contractions, claims_corpus, results,
                 corpus, i, tokens, sequences, keras>>

\* for word in tokens: word = word.lower(); ...
ForWord ==
  /\ cti = "for_word"
  /\ t < Len(tokens)
  /\ LET w == Lower(tokens[t + 1])
         r == ProcessWord(w, dictionary, contractions, unk_word_index)
     IN  /\ word' = w
         /\ appended' = r.append
         /\ sequence' = SequenceAppend(sequence, r.append)
         /\ IF r.exc = "none"
            THEN t' = t + 1 /\ UNCHANGED <<pc, status, cti>>
            ELSE Raise(r.exc) /\ cti' = "idle" /\ UNCHANGED t
  /\ UNCHANGED <<defined, artifacts, loaded, results, corpus, i, tokens,
                 sequences, keras>>

\* sequences.append(sequence)
EndClaim ==
  /\ cti = "for_word"
  /\ t = Len(tokens)
  /\ sequences' = Append(sequences, sequence)
  /\ i' = i + 1
  /\ cti' = "for_i"
  /\ UNCHANGED <<pc, status, defined, artifacts, loaded, results, corpus,
                 tokens, t, word, sequence, appended, keras>>

\* return sequences, assigned to claims_corpus_indices
ReturnConvertClaims ==
  /\ cti = "return"
  /\ pc = "convert_claims"
  /\ claims_corpus_indices' = sequences
  /\ defined' = defined \cup {"claims_corpus_indices"}
  /\ cti' = "idle"
  /\ pc' = After(pc)
  /\ UNCHANGED <<status, artifacts, loaded, X, test_claim_indices, test_data,
                 corpus, i, tokens, t, word, sequence, sequences, appended,
                 keras>>

\* maxSeqLength = 125; X = pad_sequences(claims_corpus_indices, ...)
PadClaims ==
  /\ AtCell("pad_claims")
  /\ IF "claims_corpus_indices" \in defined
     THEN /\ X' = PadCall(claims_corpus_indices)
          /\ defined' = defined \cup {"maxSeqLength", "X"}
          /\ pc' = After(pc)
          /\ UNCHANGED status
     ELSE Raise("NameError") /\ UNCHANGED <<X, defined>>
  /\ UNCHANGED <<artifacts, loaded, claims_corpus_indices,
                 test_claim_indices, test_data, frame, keras>>

(***************************************************************************)
(* Cells that build, train, use, save and reload the network               *)
(***************************************************************************)
\* embedding_layer = Embedding(..., input_length=maxSeqLength, ...);
\* model = Sequential(); model.add(...)
BuildModel ==
  /\ AtCell("build_model")
  /\ IF {"word_vectors", "maxSeqLength"} \subseteq defined
     THEN /\ model' = [built |-> TRUE, compiled |-> FALSE, trained |-> FALSE]
          /\ defined' = defined \cup {"embedding_layer", "model"}
          /\ pc' = After(pc)
          /\ UNCHANGED status
     ELSE Raise("NameError") /\ UNCHANGED <<model, defined>>
  /\ UNCHANGED <<artifacts, loaded, results, frame, final_model_hdf5, pred>>

\* X_train, X_test, y_train, y_test = train_test_split(X, labels, ...)
SplitData ==
  /\ AtCell("split")
  /\ IF {"X", "labels"} \subseteq defined
     THEN /\ defined' = defined \cup {"X_train", "X_test", "y_train", "y_test"}
          /\ pc' = After(pc)
          /\ UNCHANGED status
     ELSE Raise("NameError") /\ UNCHANGED defined
  /\ UNCHANGED <<artifacts, loaded, results, frame, keras>>

\* model.compile(loss='binary_crossentropy', optimizer=opt, ...)
CompileModel ==
  /\ AtCell("compile")
  /\ IF "model" \in defined
     THEN /\ model' = [model EXCEPT !.compiled = TRUE]
          /\ pc' = After(pc)
          /\ UNCHANGED status
     ELSE Raise("NameError") /\ UNCHANGED model
  /\ UNCHANGED <<defined, artifacts, loaded, results, frame,
                 final_model_hdf5, pred>>

\* model.fit(X_train, y_train, epochs=epochs, batch_size=batch_size, ...)
FitModel ==
  /\ AtCell("fit")
  /\ IF ~({"model", "X_train", "X_test", "y_train", "y_test"}
            \subseteq defined)
     THEN Raise("NameError") /\ UNCHANGED model
     ELSE IF ~model.compiled
          THEN Raise("RuntimeError") /\ UNCHANGED model
          ELSE /\ model' = [model EXCEPT !.trained = TRUE]
               /\ pc' = After(pc)
               /\ UNCHANGED status
  /\ UNCHANGED <<defined, artifacts, loaded, results, frame,
                 final_model_hdf5, pred>>

\* test_claim_indices = convert_to_indices(test_claim, dictionary,
\*                                         contractions): the call
CallConvertTest ==
  /\ AtCell("prepare_test")
  /\ IF {"dictionary", "contractions"} \subseteq defined
     THEN Enter(test_claim) /\ UNCHANGED <<pc, status>>
     ELSE Raise("NameError") /\ UNCHANGED frame
  /\ UNCHANGED <<defined, artifacts, loaded, results, keras>>

\* return sequences, assigned to test_claim_indices, and then
\* test_data = pad_sequences(test_claim_indices, maxlen=maxSeqLength, ...)
ReturnConvertTest ==
  /\ cti = "return"
  /\ pc = "prepare_test"
  /\ test_claim_indices' = sequences
  /\ cti' = "idle"
  /\ IF "maxSeqLength" \in defined
     THEN /\ test_data' = PadCall(sequences)
          /\ defined' = defined \cup
                          {"test_claim", "test_claim_indices", "test_data"}
          /\ pc' = After(pc)
          /\ UNCHANGED status
     ELSE /\ Raise("NameError")
          /\ defined' = defined \cup {"test_claim", "test_claim_indices"}
          /\ UNCHANGED test_data
  /\ UNCHANGED <<artifacts, loaded, claims_corpus_indices, X, corpus, i,
                 tokens, t, word, sequence, sequences, appended, keras>>

\* pred = model.predict(test_data)
Predict ==
  /\ AtCell("predict")
  /\ IF {"model", "test_data"} \subseteq defined
     THEN /\ pred' = [by |-> "model", data |-> test_data]
          /\ defined' = defined \cup {"pred", "pred_label", "pred_df"}
          /\ pc' = After(pc)
          /\ UNCHANGED status
     ELSE Raise("NameError") /\ UNCHANGED <<pred, defined>>
  /\ UNCHANGED <<artifacts, loaded, results, frame, model, final_model_hdf5>>

\* model.save(os.path.join(output_folder, model_filename))
SaveModel ==
  /\ AtCell("save")
  /\ IF "model" \in defined
     THEN /\ final_model_hdf5' = [exists |-> TRUE, trained |-> model.trained]
          /\ defined' = defined \cup {"output_folder", "model_filename"}
          /\ pc' = After(pc)
          /\ UNCHANGED status
     ELSE Raise("NameError") /\ UNCHANGED <<final_model_hdf5, defined>>
  /\ UNCHANGED <<artifacts, loaded, results, frame, model, pred>>

\* loaded_model = load_model(os.path.join(output_folder, model_filename))
LoadModel ==
  /\ AtCell("load")
  /\ IF ~({"output_folder", "model_filename"} \subseteq defined)
     THEN Raise("NameError") /\ UNCHANGED defined
     ELSE IF ~final_model_hdf5.exists
          THEN Raise("OSError") /\ UNCHANGED defined
          ELSE /\ defined' = defined \cup {"loaded_model"}
               /\ pc' = After(pc)
               /\ UNCHANGED status
  /\ UNCHANGED <<artifacts, loaded, results, frame, keras>>

\* pred = loaded_model.predict(test_data)
PredictLoaded ==
  /\ AtCell("predict_loaded")
  /\ IF {"loaded_model", "test_data"} \subseteq defined
     THEN /\ pred' = [by |-> "loaded_model", data |-> test_data]
          /\ defined' = defined \cup {"pred", "pred_label", "pred_df"}
          /\ pc' = After(pc)
          /\ UNCHANGED status
     ELSE Raise("NameError") /\ UNCHANGED <<pred, defined>>
  /\ UNCHANGED <<artifacts, loaded, results, frame, model, final_model_hdf5>>

Next ==
  \/ LoadEmbeddings
  \/ LoadContractions
  \/ LoadCorpus
  \/ LoadLabels
  \/ CategoricalLabels
  \/ CallConvertClaims
  \/ ForClaim
  \/ ForWord
  \/ EndClaim
  \/ ReturnConvertClaims
  \/ PadClaims
  \/ BuildModel
  \/ SplitData
  \/ CompileModel
  \/ FitModel
  \/ CallConvertTest
  \/ ReturnConvertTest
  \/ Predict
  \/ SaveModel
  \/ LoadModel
  \/ PredictLoaded

Spec == Init /\ [][Next]_vars

(***************************************************************************)
(* Vocabulary of the properties                                            *)
(***************************************************************************)
InDictionary(w) == \E k \in 1..Len(dictionary) : dictionary[k] = w

\* the token with its punctuation removed and its letters lowercased
NormalizedWord(tok) ==
  LET kept == SelectSeq(tok, LAMBDA c : c \notin Punctuation)
  IN  [k \in 1..Len(kept) |-> LowerChar(kept[k])]

\* the last step completed the token tokens[t] of the current claim
JustProcessed == status = "ok" /\ cti = "for_word" /\ t > 0

\* the token is, up to letter case, a key of the contractions map
IsContraction(tok) == Lower(tok) \in DOMAIN contractions

\* the last n elements of seq
LastN(seq, n) == SubSeq(seq, Len(seq) - n + 1, Len(seq))

(***************************************************************************)
(* C1: convert_to_indices never fails on an unmapped word: a token that is *)
(* no contraction key and whose normalized form is non-empty and not in    *)
(* the dictionary adds exactly one unk_word_index to the claim's sequence, *)
(* every word of a contraction's expansion that is not in the dictionary   *)
(* adds unk_word_index at its position, and no ValueError leaves the call. *)
(***************************************************************************)
C1_UnmappedWordGetsPlaceholder ==
  /\ status # "ValueError"
  /\ JustProcessed =>
       /\ Len(appended) <= Len(sequence)
       /\ LastN(sequence, Len(appended)) = appended
       /\ IF IsContraction(tokens[t])
          THEN LET expansion == Split(contractions[Lower(tokens[t])])
               IN  /\ Len(appended) = Len(expansion)
                   /\ \A k \in 1..Len(expansion) :
                        ~InDictionary(expansion[k])
                          => appended[k] = unk_word_index
          ELSE LET norm == NormalizedWord(tokens[t])
               IN  (norm # <<>> /\ ~InDictionary(norm))
                     => appended = <<unk_word_index>>

\* a claim whose first token is an unmapped plain word and whose current
\* token is a contraction with an unmapped word in its expansion
C1_Witness ==
  /\ JustProcessed
  /\ t >= 2
  /\ ~IsContraction(tokens[1])
  /\ NormalizedWord(tokens[1]) # <<>>
  /\ ~InDictionary(NormalizedWord(tokens[1]))
  /\ sequence[1] = unk_word_index
  /\ IsContraction(tokens[t])
  /\ \E k \in 1..Len(appended) : appended[k] = unk_word_index

(***************************************************************************)
(* C2: every index other than the placeholder that a token which is no     *)
(* contraction key yields is the first position in the dictionary of the   *)
(* token lowercased and stripped of punctuation.                           *)
(***************************************************************************)
C2_IndexIsFirstPositionOfNormalizedWord ==
  (JustProcessed /\ ~IsContraction(tokens[t])) =>
    \A k \in 1..Len(appended) :
      appended[k] # unk_word_index =>
        /\ appended[k] + 1 \in 1..Len(dictionary)
        /\ dictionary[appended[k] + 1] = NormalizedWord(tokens[t])
        /\ \A m \in 1..appended[k] : dictionary[m] # NormalizedWord(tokens[t])

\* a token with an upper-case letter and punctuation whose normalized form
\* occurs twice in the dictionary
C2_Witness ==
  /\ JustProcessed
  /\ ~IsContraction(tokens[t])
  /\ tokens[t] # Lower(tokens[t])
  /\ Len(NormalizedWord(tokens[t])) < Len(tokens[t])
  /\ Len(appended) = 1
  /\ appended[1] # unk_word_index
  /\ Cardinality({k \in 1..Len(dictionary) :
                    dictionary[k] = NormalizedWord(tokens[t])}) > 1

(***************************************************************************)
(* C3: convert_to_indices returns one sequence per claim, in corpus order,  *)
(* each built from its own claim only, the indices in the order of the     *)
(* claim's words, the words of an expanded contraction in their order at   *)
(* the contraction's position; checked while the call runs, when it        *)
(* returns, and when the cell has bound its result.                        *)
(***************************************************************************)
\* what the n-th token of a claim contributes
Contribution(toks, n) ==
  ProcessWord(Lower(toks[n]), dictionary, contractions, unk_word_index).append

RECURSIVE InOrder(_, _, _)
\* the contributions of the tokens lo..hi, one after the other in the order
\* of the tokens
InOrder(toks, lo, hi) ==
  IF lo > hi THEN <<>>
  ELSE IF lo = hi THEN Contribution(toks, lo)
  ELSE InOrder(toks, lo, (lo + hi) \div 2)
         \o InOrder(toks, (lo + hi) \div 2 + 1, hi)

\* seq holds the indices of the words of claim, in the order of the words
IsIndicesOf(seq, claim) ==
  \A toks \in {Split(claim)} : seq = InOrder(toks, 1, Len(toks))

C3_OrderMaintained ==
  /\ (status = "ok" /\ cti = "for_word") =>
       /\ t = 0 => tokens = Split(corpus[i + 1])
       /\ sequence = InOrder(tokens, 1, t)
  /\ (status = "ok" /\ cti = "for_i") =>
       /\ Len(sequences) = i
       /\ i > 0 => IsIndicesOf(sequences[i], corpus[i])
  /\ (status = "ok" /\ cti = "return") =>
       /\ Len(sequences) = Len(corpus)
       /\ \A n \in 1..Len(corpus) : IsIndicesOf(sequences[n], corpus[n])
  /\ (status = "ok" /\ pc = After("convert_claims")) =>
       /\ Len(claims_corpus_indices) = Len(claims_corpus)
       /\ \A n \in 1..Len(claims_corpus) :
            IsIndicesOf(claims_corpus_indices[n], claims_corpus[n])
  /\ (status = "ok" /\ pc = After("prepare_test")) =>
       /\ Len(test_claim_indices) = Len(test_claim)
       /\ \A n \in 1..Len(test_claim) :
            IsIndicesOf(test_claim_indices[n], test_claim[n])

\* a corpus of several claims, one of them with a contraction of several
\* words between two plain words that yield different indices
C3_Witness ==
  /\ "claims_corpus_indices" \in defined
  /\ Len(claims_corpus) >= 2
  /\ \E n \in 1..Len(claims_corpus) :
       LET toks == Split(claims_corpus[n])
       IN  \E k \in 2..(Len(toks) - 1) :
             /\ IsContraction(toks[k])
             /\ Len(Contribution(toks, k)) >= 2
             /\ Contribution(toks, k - 1) # Contribution(toks, k + 1)
             /\ Len(Contribution(toks, k - 1)) = 1
  /\ \E n \in 1..(Len(claims_corpus) - 1) :
       claims_corpus_indices[n] # claims_corpus_indices[n + 1]

(***************************************************************************)
(* C4: every occurrence of a contraction of the map, whatever its letter   *)
(* case and whether or not punctuation is attached to it, contributes the  *)
(* indices of the words of its expansion.                                  *)
(***************************************************************************)
AllPunctuation(s) == \A k \in 1..Len(s) : s[k] \in Punctuation

\* tok is key, in any letter case, with punctuation before or after it
IsOccurrenceOf(tok, key) ==
  \E a \in 0..Len(tok) : \E b \in a..Len(tok) :
    /\ AllPunctuation(SubSeq(tok, 1, a))
    /\ Lower(SubSeq(tok, a + 1, b)) = key
    /\ AllPunctuation(SubSeq(tok, b + 1, Len(tok)))

\* the indices of the words of the expansion of key
ExpansionIndices(key) ==
  LET expansion == Split(contractions[key])
  IN  [k \in 1..Len(expansion) |->
         IF InDictionary(expansion[k])
         THEN (CHOOSE m \in 1..Len(dictionary) :
                 /\ dictionary[m] = expansion[k]
                 /\ \A n \in 1..(m - 1) : dictionary[n] # expansion[k]) - 1
         ELSE unk_word_index]

C4_ContractionsExpanded ==
  JustProcessed =>
    \A key \in DOMAIN contractions :
      IsOccurrenceOf(tokens[t], key) => appended = ExpansionIndices(key)

(***************************************************************************)
(* C5: after padding every claim is a row of exactly maxSeqLength indices, *)
(* whatever the length of its index sequence, and X and test_data have one *)
(* row per claim.                                                          *)
(***************************************************************************)
C5_FixedWidthRows ==
  /\ "X" \in defined =>
       /\ Len(X) = Len(claims_corpus)
       /\ \A r \in 1..Len(X) : Len(X[r]) = maxSeqLength
  /\ "test_data" \in defined =>
       /\ Len(test_data) = Len(test_claim)
       /\ \A r \in 1..Len(test_data) : Len(test_data[r]) = maxSeqLength

\* X holds rows made from sequences of 0, fewer than maxSeqLength, exactly
\* maxSeqLength and more than maxSeqLength indices, and test_data is made
C5_Witness ==
  /\ "X" \in defined
  /\ "test_data" \in defined
  /\ \E r \in 1..Len(X) : Len(claims_corpus_indices[r]) = 0
  /\ \E r \in 1..Len(X) :
       Len(claims_corpus_indices[r]) \in 1..(maxSeqLength - 1)
  /\ \E r \in 1..Len(X) : Len(claims_corpus_indices[r]) = maxSeqLength
  /\ \E r \in 1..Len(X) : Len(claims_corpus_indices[r]) > maxSeqLength

(***************************************************************************)
(* C6: convert_to_indices and the padding are deterministic: the call does *)
(* not modify the corpus, the dictionary or the contractions map, and a    *)
(* claim text converted and padded in the training call and again in the   *)
(* later test call gets identical index sequences and rows.                *)
(***************************************************************************)
C6_Deterministic ==
  /\ "dictionary" \in defined => dictionary = wordsList_npy
  /\ "contractions" \in defined => contractions = DictZip(contractions_xlsx)
  /\ "claims_corpus" \in defined =>
       claims_corpus = ReadLines(claims_text_txt)
  /\ cti # "idle" =>
       corpus = IF pc = "convert_claims" THEN claims_corpus ELSE test_claim
  /\ (status = "ok" /\ "test_data" \in defined) =>
       \A n \in 1..Len(claims_corpus) : \A m \in 1..Len(test_claim) :
         claims_corpus[n] = test_claim[m] =>
           /\ claims_corpus_indices[n] = test_claim_indices[m]
           /\ X[n] = test_data[m]

\* the same text, with a word that is not in the dictionary, went through
\* both calls
C6_Witness ==
  /\ "test_data" \in defined
  /\ \E n \in 1..Len(claims_corpus) : \E m \in 1..Len(test_claim) :
       /\ claims_corpus[n] = test_claim[m]
       /\ \E k \in 1..Len(test_claim_indices[m]) :
            test_claim_indices[m][k] = unk_word_index
       /\ \E k \in 1..Len(test_claim_indices[m]) :
            test_claim_indices[m][k] # unk_word_index

(***************************************************************************)
(* C7: the pipeline is one linear sequence: the corpus is indexed only     *)
(* after embeddings, contractions and corpus are loaded, the network is    *)
(* trained only after the corpus is indexed and padded, predict is only    *)
(* called on test_data made by convert_to_indices and the same padding as  *)
(* X, the model is saved only when trained and reloaded only when saved.   *)
(***************************************************************************)
C7_LinearPipeline ==
  /\ cti # "idle" => pc \in {"convert_claims", "prepare_test"}
  /\ (cti # "idle" \/ "claims_corpus_indices" \in defined) =>
       {"dictionary", "contractions", "claims_corpus"} \subseteq defined
  /\ "X" \in defined => "claims_corpus_indices" \in defined
  /\ model.trained =>
       /\ model.built /\ model.compiled
       /\ {"claims_corpus_indices", "X"} \subseteq defined
       /\ X = PadCall(claims_corpus_indices)
  /\ pred.by # "" =>
       /\ model.trained
       /\ "test_data" \in defined
       /\ pred.data = test_data
       /\ test_claim_indices = sequences
       /\ test_data = PadCall(test_claim_indices)
       /\ \A r \in 1..Len(test_data) : \A q \in 1..Len(X) :
            Len(test_data[r]) = Len(X[q])
  /\ final_model_hdf5.exists => final_model_hdf5.trained
  /\ "loaded_model" \in defined => final_model_hdf5.exists
  /\ pred.by = "loaded_model" => "loaded_model" \in defined

\* the last cell has run: the reloaded model predicted on test_data
C7_Witness ==
  /\ pc = "done"
  /\ status = "ok"
  /\ pred.by = "loaded_model"
  /\ Len(X) > 0

(***************************************************************************)
(* C9: padding goes before the words and truncation removes the end: a     *)
(* sequence of n <= maxSeqLength indices becomes maxSeqLength - n zeros    *)
(* followed by the n indices in their order, a longer one becomes its      *)
(* first maxSeqLength indices.                                             *)
(***************************************************************************)
\* row is seq padded in front, or cut at the end, to maxSeqLength
IsPrePaddedPostTruncated(row, seq) ==
  /\ DOMAIN row = 1..maxSeqLength
  /\ \A k \in 1..maxSeqLength :
       row[k] = IF Len(seq) > maxSeqLength THEN seq[k]
                ELSE IF k <= maxSeqLength - Len(seq) THEN 0
                ELSE seq[k - (maxSeqLength - Len(seq))]

C9_PrePaddingPostTruncation ==
  /\ "X" \in defined =>
       \A r \in 1..Len(claims_corpus_indices) :
         IsPrePaddedPostTruncated(X[r], claims_corpus_indices[r])
  /\ "test_data" \in defined =>
       \A r \in 1..Len(test_claim_indices) :
         IsPrePaddedPostTruncated(test_data[r], test_claim_indices[r])

\* X holds a padded row that starts with a zero and ends with a non-zero
\* index, and a truncated row whose dropped index differs from its last one
C9_Witness ==
  /\ "X" \in defined
  /\ \E r \in 1..Len(X) :
       /\ Len(claims_corpus_indices[r]) \in 1..(maxSeqLength - 1)
       /\ X[r][1] = 0
       /\ X[r][maxSeqLength] # 0
  /\ \E r \in 1..Len(X) :
       /\ Len(claims_corpus_indices[r]) > maxSeqLength
       /\ claims_corpus_indices[r][maxSeqLength + 1] # X[r][maxSeqLength]

=============================================================================
